---- MODULE Spec2Model ----
(***************************************************************************)
(* A model of SentimentAnalysisPractice.py: a straight-line script that    *)
(* loads the Avatar dialogue table, groups it per episode, cleans each     *)
(* episode's text, scores it with VADER and assembles a result table.      *)
(*                                                                         *)
(* Texts are sequences of one-character strings.  Tables are records       *)
(* [columns, rows]; a row is a function from column names to cells.        *)
(* imdb_rating cells are tenths of a point (85 is 8.5), NaN for a cell     *)
(* read_csv found empty.                                                   *)
(***************************************************************************)
EXTENDS Integers, Sequences, FiniteSets, TLC

VARIABLES pc, faultStage, faultExc, globals, avatar, new_df, csvFile,
          filtered_text, i, filter_text_df, sentiment_data,
          npc, text_in, once, twice

vars == <<pc, faultStage, faultExc, globals, avatar, new_df, csvFile,
          filtered_text, i, filter_text_df, sentiment_data,
          npc, text_in, once, twice>>

pipelineVars == <<pc, faultStage, faultExc, globals, avatar, new_df, csvFile,
                  filtered_text, i, filter_text_df, sentiment_data>>

normVars == <<npc, text_in, once, twice>>

----------------------------------------------------------------------------
(* Bounds of the model *)

\* Largest number of dialogue rows in a loaded table.
MaxRows == 3

\* Longest input string given to the normalizer step on its own.
MaxLen == 4

----------------------------------------------------------------------------
(* Python and library functions, computed as the libraries compute them *)

\* pandas' missing value: what read_csv yields for an empty imdb_rating cell.
NaN == -1

Digits == <<"0", "1", "2", "3", "4", "5", "6", "7", "8", "9">>

\* str(n) of a non-negative integer (astype(str) on an integer column).
RECURSIVE PyStr(_)
PyStr(n) ==
    IF n < 10 THEN <<Digits[n + 1]>>
    ELSE PyStr(n \div 10) \o <<Digits[(n % 10) + 1]>>

\* str.lower(), one character.
LowerChar(c) ==
    CASE c = "A" -> "a"
      [] c = "B" -> "b"
      [] OTHER -> c

\* str.swapcase() in the place of str.lower().
SwapCaseChar(c) ==
    CASE c = "A" -> "a"
      [] c = "B" -> "b"
      [] c = "a" -> "A"
      [] c = "b" -> "B"
      [] OTHER -> c

SwapCase(text) == [k \in 1..Len(text) |-> SwapCaseChar(text[k])]

\* str.lower()
Lower(text) == [k \in 1..Len(text) |-> LowerChar(text[k])]

\* \w of the re module: letters, digits and the underscore.
IsWordChar(c) == c \in {"a", "b", "A", "B", "_"} \cup {Digits[k] : k \in 1..10}

\* \s of the re module, and str.isspace().
IsSpace(c) == c \in {" ", "\n"}

\* re.sub(r'[^\w\s]', '', text)
KeepWordOrSpace(c) == IsWordChar(c) \/ IsSpace(c)

StripPunct(text) == SelectSeq(text, KeepWordOrSpace)

\* nltk.corpus.stopwords.words('english'), the entries that can be written
\* with the letters of the model ("a" is the only one over a and b).
stop_words == {<<"a">>}

\* spaCy's Tokenizer._tokenize_affixes on one span without whitespace: a
\* span of letters that is no tokenizer exception stays one token.
TokenizeSpan(span) == <<span>>

\* spaCy's Tokenizer.__call__: the text is cut at every change between
\* whitespace and non-whitespace; a span that is exactly one " " after a
\* word is dropped (it becomes the word's trailing space), every other
\* whitespace span is a token of its own.
RECURSIVE SpacyScan(_, _, _, _)
SpacyScan(s, k, start, in_ws) ==
    IF k > Len(s)
    THEN IF start < k
         THEN IF in_ws THEN <<SubSeq(s, start, Len(s))>>
                       ELSE TokenizeSpan(SubSeq(s, start, Len(s)))
         ELSE <<>>
    ELSE IF IsSpace(s[k]) # in_ws
         THEN (IF start < k
               THEN IF in_ws THEN <<SubSeq(s, start, k - 1)>>
                             ELSE TokenizeSpan(SubSeq(s, start, k - 1))
               ELSE <<>>)
              \o SpacyScan(s, k + 1, IF s[k] = " " THEN k + 1 ELSE k, ~in_ws)
         ELSE SpacyScan(s, k + 1, start, in_ws)

\* [token.text for token in nlp(text)]
nlp(text) ==
    IF text = <<>> THEN <<>> ELSE SpacyScan(text, 1, 1, IsSpace(text[1]))

\* " ".join(tokens)
RECURSIVE JoinSpace(_)
JoinSpace(tokens) ==
    IF tokens = <<>> THEN <<>>
    ELSE IF Len(tokens) = 1 THEN tokens[1]
    ELSE tokens[1] \o <<" ">> \o JoinSpace(Tail(tokens))

\* Lines 41-42: lowercase, then remove what is neither \w nor \s.
CleanChars(raw) == StripPunct(Lower(raw))

\* Line 45: the whole cleaned string is looked up in the stopword list.
PassesStopwordCheck(text) == text \notin stop_words

\* Lines 46-48: tokenize and rejoin with single spaces.
Rejoin(text) == JoinSpace(nlp(text))

\* Lines 41-48, one pass of the loop body on one string: whether a string
\* is appended to filtered_text, and which.
NormalizeStep(raw) ==
    LET text == CleanChars(raw)
    IN  IF PassesStopwordCheck(text)
        THEN [kept |-> TRUE, text |-> Rejoin(text)]
        ELSE [kept |-> FALSE, text |-> <<>>]

----------------------------------------------------------------------------
(* pandas *)

Row4(b, c, r, w) ==
    ("book_num" :> b) @@ ("chapter_num" :> c) @@ ("imdb_rating" :> r)
        @@ ("character_words" :> w)

\* A DataFrame that has neither columns nor rows: pd.DataFrame([]).
NoTable == [columns |-> <<>>, rows |-> <<>>]

InputColumns == <<"book_num", "chapter_num", "imdb_rating", "character_words">>

\* The two numbers in the wrong order.
SeasonEpisodeSwapped(b, c) == PyStr(c) \o <<"-">> \o PyStr(b)

\* Lines 20 and 24: book_num as text, "-", chapter_num as text.
SeasonEpisode(b, c) == PyStr(b) \o <<"-">> \o PyStr(c)

\* df['season-episode'] = ...: the column is added to every row.
AddSeasonEpisode(df) ==
    [columns |-> Append(df.columns, "season-episode"),
     rows |-> [k \in 1..Len(df.rows) |->
                  df.rows[k] @@ ("season-episode" :>
                      SeasonEpisode(df.rows[k]["book_num"], df.rows[k]["chapter_num"]))]]

\* The grouping key of a row: groupby(['book_num', 'chapter_num', 'imdb_rating']).
Key(r) == <<r["book_num"], r["chapter_num"], r["imdb_rating"]>>

\* groupby's default dropna=True: a row with a missing key value belongs to
\* no group.
HasKey(r) == r["book_num"] # NaN /\ r["chapter_num"] # NaN /\ r["imdb_rating"] # NaN

GroupKeys(rows) == {Key(rows[k]) : k \in {j \in 1..Len(rows) : HasKey(rows[j])}}

\* groupby's default sort=True: the groups come in increasing key order.
KeyLess(k1, k2) ==
    \/ k1[1] < k2[1]
    \/ k1[1] = k2[1] /\ k1[2] < k2[2]
    \/ k1[1] = k2[1] /\ k1[2] = k2[2] /\ k1[3] < k2[3]

RECURSIVE SortKeys(_)
SortKeys(keys) ==
    IF keys = {} THEN <<>>
    ELSE LET least == CHOOSE k \in keys : \A o \in keys \ {k} : KeyLess(k, o)
         IN  <<least>> \o SortKeys(keys \ {least})

\* The strings of a group added up last row first.
RECURSIVE GroupSumReversed(_, _)
GroupSumReversed(rows, key) ==
    IF rows = <<>> THEN <<>>
    ELSE GroupSumReversed(Tail(rows), key)
         \o (IF HasKey(rows[1]) /\ Key(rows[1]) = key
             THEN rows[1]["character_words"] ELSE <<>>)

\* ['character_words'].sum() of one group: the strings of the group's rows
\* added up, first row first.
RECURSIVE GroupSum(_, _)
GroupSum(rows, key) ==
    IF rows = <<>> THEN <<>>
    ELSE (IF HasKey(rows[1]) /\ Key(rows[1]) = key
          THEN rows[1]["character_words"] ELSE <<>>)
         \o GroupSum(Tail(rows), key)

\* Line 23: groupby(...)['character_words'].sum().reset_index()
GroupBySum(df) ==
    LET keys == SortKeys(GroupKeys(df.rows))
    IN  [columns |-> InputColumns,
         rows |-> [k \in 1..Len(keys) |->
                      Row4(keys[k][1], keys[k][2], keys[k][3], GroupSum(df.rows, keys[k]))]]

\* Lines 23-24: the aggregated table.
Aggregate(df) == AddSeasonEpisode(GroupBySum(df))

\* The file system's view of new.df.csv.
NoFile == [exists |-> FALSE, header |-> <<>>, lines |-> <<>>]

\* to_csv(index=False): no column of row labels.
CsvOfNoIndex(df) ==
    [exists |-> TRUE,
     header |-> df.columns,
     lines |-> [k \in 1..Len(df.rows) |->
                   [j \in 1..Len(df.columns) |-> df.rows[k][df.columns[j]]]]]

\* to_csv with its default index=True: the row label is written as a first
\* column, whose header cell is empty.
CsvOf(df) ==
    [exists |-> TRUE,
     header |-> <<"">> \o df.columns,
     lines |-> [k \in 1..Len(df.rows) |->
                   <<k - 1>> \o [j \in 1..Len(df.columns) |-> df.rows[k][df.columns[j]]]]]

\* A write that leaves an existing file alone.
to_csv_if_absent(df, old) == IF old.exists THEN old ELSE CsvOf(df)

\* Line 25: new_df.to_csv('new.df.csv') opens the file for writing, whatever
\* it held.
to_csv(df, old) == CsvOf(df)

\* Line 51: pd.DataFrame(filtered_text).rename({0: "filtered_text"}, axis="columns").
\* An empty list gives a frame without columns, so there is nothing to rename.
FilterFrame(texts) ==
    IF texts = <<>> THEN NoTable
    ELSE [columns |-> <<"filtered_text">>,
          rows |-> [k \in 1..Len(texts) |-> ("filtered_text" :> texts[k])]]

\* str.split() finds a word iff some character is not whitespace.
HasWords(txt) == \E k \in 1..Len(txt) : ~IsSpace(txt[k])

\* SentimentIntensityAnalyzer.polarity_scores on text none of whose words is
\* in the VADER lexicon (none over the letters a and b is): every word has
\* valence 0, so neg = pos = compound = 0.0 and neu = 1.0; with no word at
\* all the four scores are 0.0.
polarity_scores(txt) ==
    [neg |-> 0, neu |-> IF HasWords(txt) THEN 1 ELSE 0, pos |-> 0, compound |-> 0]

ScoreColumns ==
    <<"id", "negative_score", "neutral_score", "positive_score",
      "compound_score", "character_words">>

\* Lines 69-79: the dictionary built for entry k (Python's i = k - 1).
ScoreRow(k, txt) ==
    LET score == polarity_scores(txt)
    IN  ("id" :> k - 1) @@ ("negative_score" :> score.neg)
        @@ ("neutral_score" :> score.neu) @@ ("positive_score" :> score.pos)
        @@ ("compound_score" :> score.compound) @@ ("character_words" :> txt)

\* Every pass reading entry 0, as line 59 does, in the place of entry i.
ScoreFrameFirstText(df) ==
    [columns |-> ScoreColumns,
     rows |-> [k \in 1..Len(df.rows) |-> ScoreRow(k, df.rows[1]["filtered_text"])]]

\* Lines 67-83: one dictionary per row of filter_text_df, then pd.DataFrame.
ScoreFrame(df) ==
    [columns |-> ScoreColumns,
     rows |-> [k \in 1..Len(df.rows) |-> ScoreRow(k, df.rows[k]["filtered_text"])]]

----------------------------------------------------------------------------
(* Inputs of the model *)

\* (book_num, chapter_num, imdb_rating) of the episodes a table may hold:
\* two books, a chapter number of two digits, one chapter listed with two
\* ratings, and one whose rating cell is empty in some rows.
Episodes ==
    {<<1, 1, 85>>, <<1, 1, 90>>, <<1, 12, NaN>>, <<1, 12, 85>>, <<2, 1, 85>>, <<2, 12, 90>>}

\* What a character says in one row.
Lines == {<<"A", ".">>, <<"b">>}

\* The dialogue rows read_csv can deliver.
InputRows ==
    {Row4(e[1], e[2], e[3], w) : e \in Episodes, w \in Lines}

Datasets ==
    UNION {[1..n -> InputRows] : n \in 0..MaxRows}

\* What new.df.csv may hold before the run: nothing, or an earlier summary.
OldFile == CsvOf(Aggregate([columns |-> InputColumns, rows |-> <<Row4(3, 7, 90, <<"b", "b">>)>>]))

PriorFiles == {NoFile, OldFile}

Alphabet == {"a", "b", "A", " ", "\n", "."}

Strings == UNION {[1..n -> Alphabet] : n \in 0..MaxLen}

----------------------------------------------------------------------------
(* The script, statement group by statement group *)

\* Lines 8-13: the names the imports bind.
Imports == {"pd", "np", "re", "nltk", "spacy", "SentimentIntensityAnalyzer"}

\* The stage of the pipeline a position of the script belongs to.
Stage(at) ==
    CASE at = "load" -> "load"
      [] at = "aggregate" -> "aggregate"
      [] at \in {"spacy_load", "normalize", "filter_df"} -> "normalize"
      [] at \in {"vader", "demo", "score", "other"} -> "score"
      [] OTHER -> "none"

\* An exception that is caught and noted, the script going on where it was.
RaiseCaught(exc) ==
    /\ pc' = pc
    /\ faultStage' = Stage(pc)
    /\ faultExc' = exc

\* An exception nothing catches: the interpreter stops at the statement.
Raise(exc) ==
    /\ pc' = "fault"
    /\ faultStage' = Stage(pc)
    /\ faultExc' = exc

Continue(next) ==
    /\ pc' = next
    /\ UNCHANGED <<faultStage, faultExc>>

NoResult == [kept |-> FALSE, text |-> <<>>]

InitPipeline ==
    /\ pc = "load"
    /\ faultStage = "none"
    /\ faultExc = "none"
    /\ globals = Imports
    /\ avatar = NoTable
    /\ new_df = NoTable
    /\ csvFile \in PriorFiles
    /\ filtered_text = <<>>
    /\ i = 0
    /\ filter_text_df = NoTable
    /\ sentiment_data = NoTable

Init ==
    /\ InitPipeline
    /\ npc = "off"
    /\ text_in = <<>>
    /\ once = NoResult
    /\ twice = NoResult

\* Line 16: read_csv delivers the table, or raises when the resource cannot
\* be fetched or parsed.
LoadOk ==
    /\ pc = "load"
    /\ UNCHANGED normVars
    /\ \E rows \in Datasets : avatar' = [columns |-> InputColumns, rows |-> rows]
    /\ globals' = globals \cup {"avatar"}
    /\ Continue("aggregate")
    /\ UNCHANGED <<new_df, csvFile, filtered_text, i, filter_text_df, sentiment_data>>

\* Line 16: whatever parses is taken (no schema check), also a table that
\* lacks the columns the script uses.
LoadOtherTable ==
    /\ pc = "load"
    /\ UNCHANGED normVars
    /\ avatar' = NoTable
    /\ globals' = globals \cup {"avatar"}
    /\ Continue("aggregate")
    /\ UNCHANGED <<new_df, csvFile, filtered_text, i, filter_text_df, sentiment_data>>

LoadFails ==
    /\ pc = "load"
    /\ UNCHANGED normVars
    /\ \E exc \in {"URLError", "ParserError"} : Raise(exc)
    /\ UNCHANGED <<globals, avatar, new_df, csvFile, filtered_text, i,
                   filter_text_df, sentiment_data>>

\* Line 20 on a table without book_num.
AggregateKeyError ==
    /\ pc = "aggregate"
    /\ UNCHANGED normVars
    /\ avatar.columns # InputColumns
    /\ Raise("KeyError")
    /\ UNCHANGED <<globals, avatar, new_df, csvFile, filtered_text, i,
                   filter_text_df, sentiment_data>>

\* Lines 20-34: the identifier column on avatar, the grouped table, its
\* identifier column, the file. (The loop of lines 32-34 only prints.)
AggregateOk ==
    /\ pc = "aggregate"
    /\ UNCHANGED normVars
    /\ avatar.columns = InputColumns
    /\ avatar' = AddSeasonEpisode(avatar)
    /\ new_df' = Aggregate(avatar)
    /\ csvFile' = to_csv(Aggregate(avatar), csvFile)
    /\ globals' = globals \cup {"new_df"}
    /\ Continue("spacy_load")
    /\ UNCHANGED <<filtered_text, i, filter_text_df, sentiment_data>>

\* Line 25 when new.df.csv cannot be opened for writing.
AggregateWriteFails ==
    /\ pc = "aggregate"
    /\ UNCHANGED normVars
    /\ avatar.columns = InputColumns
    /\ avatar' = AddSeasonEpisode(avatar)
    /\ new_df' = Aggregate(avatar)
    /\ globals' = globals \cup {"new_df"}
    /\ Raise("PermissionError")
    /\ UNCHANGED <<csvFile, filtered_text, i, filter_text_df, sentiment_data>>

\* Lines 37-38: the empty list, then the spaCy model.
SpacyLoadOk ==
    /\ pc = "spacy_load"
    /\ UNCHANGED normVars
    /\ filtered_text' = <<>>
    /\ i' = 0
    /\ globals' = globals \cup {"filtered_text", "nlp"}
    /\ Continue("normalize")
    /\ UNCHANGED <<avatar, new_df, csvFile, filter_text_df, sentiment_data>>

\* Line 38 when en_core_web_sm is not installed.
SpacyLoadFails ==
    /\ pc = "spacy_load"
    /\ UNCHANGED normVars
    /\ filtered_text' = <<>>
    /\ globals' = globals \cup {"filtered_text"}
    /\ Raise("OSError")
    /\ UNCHANGED <<avatar, new_df, csvFile, i, filter_text_df, sentiment_data>>

\* Lines 39-48, one pass: row i of new_df is cleaned and, if it is not a
\* stopword, appended.
NormalizeRow ==
    /\ pc = "normalize"
    /\ UNCHANGED normVars
    /\ i < Len(new_df.rows)
    /\ LET result == NormalizeStep(new_df.rows[i + 1]["character_words"])
       IN  filtered_text' = IF result.kept THEN Append(filtered_text, result.text)
                            ELSE filtered_text
    /\ i' = i + 1
    /\ globals' = globals \cup {"text", "stop_words"}
    /\ Continue("normalize")
    /\ UNCHANGED <<avatar, new_df, csvFile, filter_text_df, sentiment_data>>

\* Line 44 when the stopwords corpus is not installed: the first pass raises.
NormalizeNoCorpus ==
    /\ pc = "normalize"
    /\ UNCHANGED normVars
    /\ i < Len(new_df.rows)
    /\ i = 0
    /\ globals' = globals \cup {"text"}
    /\ Raise("LookupError")
    /\ UNCHANGED <<avatar, new_df, csvFile, filtered_text, i, filter_text_df,
                   sentiment_data>>

\* Lines 39 and 51-52: the loop is over; the cleaned strings become a frame.
FilterDf ==
    /\ pc = "normalize"
    /\ UNCHANGED normVars
    /\ i >= Len(new_df.rows)
    /\ filter_text_df' = FilterFrame(filtered_text)
    /\ globals' = globals \cup {"filter_text_df"}
    /\ Continue("vader")
    /\ UNCHANGED <<avatar, new_df, csvFile, filtered_text, i, sentiment_data>>

\* Lines 55-56: nltk.download returns (True or False), then the analyzer
\* opens the lexicon.
VaderOk ==
    /\ pc = "vader"
    /\ UNCHANGED normVars
    /\ globals' = globals \cup {"sentiment"}
    /\ Continue("demo")
    /\ UNCHANGED <<avatar, new_df, csvFile, filtered_text, i, filter_text_df,
                   sentiment_data>>

\* Line 56 when the lexicon is neither downloaded nor installed.
VaderFails ==
    /\ pc = "vader"
    /\ UNCHANGED normVars
    /\ Raise("LookupError")
    /\ UNCHANGED <<globals, avatar, new_df, csvFile, filtered_text, i,
                   filter_text_df, sentiment_data>>

\* Lines 59-64: the first cleaned text is split at '.' and each part scored
\* and printed.
DemoOk ==
    /\ pc = "demo"
    /\ UNCHANGED normVars
    /\ "filtered_text" \in {filter_text_df.columns[k] : k \in 1..Len(filter_text_df.columns)}
    /\ globals' = globals \cup {"txt", "sentences"}
    /\ Continue("score")
    /\ UNCHANGED <<avatar, new_df, csvFile, filtered_text, i, filter_text_df,
                   sentiment_data>>

\* Line 59 on a frame without columns: filter_text_df.filtered_text is no
\* attribute.
DemoNoColumn ==
    /\ pc = "demo"
    /\ UNCHANGED normVars
    /\ "filtered_text" \notin {filter_text_df.columns[k] : k \in 1..Len(filter_text_df.columns)}
    /\ Raise("AttributeError")
    /\ UNCHANGED <<globals, avatar, new_df, csvFile, filtered_text, i,
                   filter_text_df, sentiment_data>>

\* Lines 67-83: the table of polarity scores.
ScoreRows ==
    /\ pc = "score"
    /\ UNCHANGED normVars
    /\ sentiment_data' = ScoreFrame(filter_text_df)
    /\ globals' = globals \cup {"sentiment_data", "score", "df_rows"}
    /\ Continue("other")
    /\ UNCHANGED <<avatar, new_df, csvFile, filtered_text, i, filter_text_df>>

\* Lines 86-90: other_data = [], and the first pass of the loop (the frame
\* has a row, or line 59 had raised) evaluates s.sentiment(terms).  The
\* script binds no name s, so the lookup raises.
OtherData ==
    /\ pc = "other"
    /\ UNCHANGED normVars
    /\ Len(filter_text_df.rows) > 0
    /\ "s" \notin globals
    /\ globals' = globals \cup {"other_data", "terms"}
    /\ Raise("NameError")
    /\ UNCHANGED <<avatar, new_df, csvFile, filtered_text, i, filter_text_df,
                   sentiment_data>>

Next ==
    \/ LoadOk
    \/ LoadOtherTable
    \/ LoadFails
    \/ AggregateKeyError
    \/ AggregateOk
    \/ AggregateWriteFails
    \/ SpacyLoadOk
    \/ SpacyLoadFails
    \/ NormalizeRow
    \/ NormalizeNoCorpus
    \/ FilterDf
    \/ VaderOk
    \/ VaderFails
    \/ DemoOk
    \/ DemoNoColumn
    \/ ScoreRows
    \/ OtherData

Spec == Init /\ [][Next]_vars

----------------------------------------------------------------------------
(* The normalizer step on its own, applied to a string and then to its own
   output *)

InitNorm ==
    /\ InitPipeline
    /\ csvFile = NoFile
    /\ npc = "start"
    /\ text_in \in Strings
    /\ once = NoResult
    /\ twice = NoResult

NormOnce ==
    /\ npc = "start"
    /\ UNCHANGED pipelineVars
    /\ once' = NormalizeStep(text_in)
    /\ npc' = "once"
    /\ UNCHANGED <<text_in, twice>>

NormTwice ==
    /\ npc = "once"
    /\ UNCHANGED pipelineVars
    /\ once.kept
    /\ twice' = NormalizeStep(once.text)
    /\ npc' = "twice"
    /\ UNCHANGED <<text_in, once>>

NextNorm ==
    \/ NormOnce
    \/ NormTwice

SpecNorm == InitNorm /\ [][NextNorm]_vars

----------------------------------------------------------------------------
(* Properties *)

\* The columns of the table lines 99-107 would complete.
FinalColumns ==
    <<"id", "negative_score", "neutral_score", "positive_score", "compound_score",
      "character_words", "arousal_score", "valence_score", "description",
      "imdb_rating", "season">>

CsvColumns ==
    <<"book_num", "chapter_num", "imdb_rating", "character_words", "season-episode">>

\* The aggregator has run and line 25 has written the file.
Written == pc \notin {"load", "aggregate"} /\ faultStage \notin {"load", "aggregate"}

\* The normalizer loop has run to its end.
Normalized == "filter_text_df" \in globals

\* Lines 66-83 have built sentiment_data.
Scored == "sentiment_data" \in globals

Terminated == pc \in {"fault", "done"}

\* The cleaned form of a text: lowercased, stripped, tokenized and rejoined.
Cleaned(raw) == Rejoin(CleanChars(raw))

\* C1: the aggregated table has as many rows as there are distinct
\* (book_num, chapter_num, imdb_rating) combinations among all input rows.
C1_RowPerDistinctKey ==
    "new_df" \in globals =>
        Len(new_df.rows) = Cardinality({Key(avatar.rows[k]) : k \in 1..Len(avatar.rows)})

\* C2: after the normalizer loop, filtered_text[k] is the cleaned form of the
\* text of row k of new_df, for every index k of filtered_text.
C2_Aligned ==
    Normalized =>
        \A k \in 1..Len(filtered_text) :
            /\ k <= Len(new_df.rows)
            /\ filtered_text[k] = Cleaned(new_df.rows[k]["character_words"])

\* The number a string of decimal digits denotes (-1 if it is no such string).
RECURSIVE DecimalValue(_)
DecimalValue(text) ==
    IF text = <<>> \/ \E k \in 1..Len(text) : \A d \in 1..10 : Digits[d] # text[k]
    THEN -1
    ELSE LET last == (CHOOSE d \in 1..10 : Digits[d] = text[Len(text)]) - 1
         IN  IF Len(text) = 1 THEN last
             ELSE 10 * DecimalValue(SubSeq(text, 1, Len(text) - 1)) + last

\* C3: in every row of new_df the 'season-episode' cell is the row's book_num
\* as text, one "-", and the row's chapter_num as text.
C3_IdentifierFormat ==
    \A k \in 1..Len(new_df.rows) :
        LET r == new_df.rows[k]
            id == r["season-episode"]
            nb == Len(PyStr(r["book_num"]))
        IN  /\ id = PyStr(r["book_num"]) \o <<"-">> \o PyStr(r["chapter_num"])
            /\ id[nb + 1] = "-"
            /\ DecimalValue(SubSeq(id, 1, nb)) = r["book_num"]
            /\ DecimalValue(SubSeq(id, nb + 2, Len(id))) = r["chapter_num"]

C3_Witness ==
    /\ "new_df" \in globals
    /\ \E k \in 1..Len(new_df.rows) :
          /\ new_df.rows[k]["book_num"] = 2
          /\ new_df.rows[k]["chapter_num"] = 12
          /\ new_df.rows[k]["season-episode"] = <<"2", "-", "1", "2">>

\* C4, as claimed: the written file has exactly the five columns book_num,
\* chapter_num, imdb_rating, character_words, season-episode.
C4_ExactlyFiveColumns ==
    Written => csvFile.header = CsvColumns

\* C4, amended: the written file has an unnamed first column holding the row
\* position, followed by exactly the five named columns.
C4_IndexThenFiveColumns ==
    Written =>
        /\ csvFile.exists
        /\ csvFile.header = <<"">> \o CsvColumns
        /\ \A k \in 1..Len(csvFile.lines) :
              /\ Len(csvFile.lines[k]) = 6
              /\ csvFile.lines[k][1] = k - 1

C4_Witness ==
    /\ Written
    /\ Len(csvFile.lines) >= 2

\* C5, as claimed: sentiment_data has one row per row of new_df, and the
\* character_words of each row is the raw text of that row of new_df.
C5_RawTextPerEpisode ==
    Scored =>
        /\ Len(sentiment_data.rows) = Len(new_df.rows)
        /\ \A k \in 1..Len(sentiment_data.rows) :
              k <= Len(new_df.rows) =>
                  sentiment_data.rows[k]["character_words"]
                      = new_df.rows[k]["character_words"]

\* The cleaned texts of the rows of a table whose cleaned characters are not
\* a stopword, in row order.
RECURSIVE KeptTexts(_, _)
KeptTexts(rows, n) ==
    IF n = 0 THEN <<>>
    ELSE LET raw == rows[n]["character_words"]
         IN  KeptTexts(rows, n - 1)
                 \o (IF CleanChars(raw) \in stop_words THEN <<>> ELSE <<Cleaned(raw)>>)

\* C5, amended: sentiment_data (lines 66-83) has one row per row of new_df
\* whose cleaned text is not a stopword, in that order, numbered from 0, and
\* the character_words of each row is that cleaned text, not the raw text.
C5_CleanedTextPerKeptEpisode ==
    Scored =>
        LET kept == KeptTexts(new_df.rows, Len(new_df.rows))
        IN  /\ Len(sentiment_data.rows) = Len(kept)
            /\ \A k \in 1..Len(kept) :
                  /\ sentiment_data.rows[k]["character_words"] = kept[k]
                  /\ sentiment_data.rows[k]["id"] = k - 1

C5_Witness ==
    /\ Scored
    /\ Len(new_df.rows) = 2
    /\ Len(sentiment_data.rows) = 1
    /\ new_df.rows[1]["character_words"] = <<"A", ".">>
    /\ new_df.rows[2]["character_words"] = <<"b", "A", ".">>
    /\ sentiment_data.rows[1]["character_words"] = <<"b", "a">>

\* Words separated by exactly one space each, and no other whitespace: no
\* whitespace in front, no line break, no two spaces in a row.
SingleSpaced(text) ==
    /\ text # <<>> => ~IsSpace(text[1])
    /\ \A k \in 1..Len(text) : text[k] # "\n"
    /\ \A k \in 1..(Len(text) - 1) : ~(IsSpace(text[k]) /\ IsSpace(text[k + 1]))

\* C6, as claimed: the normalizer step applied to its own output yields that
\* output again, for every input string.
C6_Idempotent ==
    npc = "twice" => twice = once

\* C6, amended: the normalizer step applied to its own output yields that
\* output again whenever the output is not a stopword and is single-spaced.
C6_IdempotentOnSingleSpaced ==
    (npc = "twice" /\ once.text \notin stop_words /\ SingleSpaced(once.text)) =>
        /\ twice.kept
        /\ twice.text = once.text

C6_Witness ==
    /\ npc = "twice"
    /\ text_in = <<"A", ".", " ", "b">>
    /\ once.text = <<"a", " ", "b">>
    /\ twice.text = <<"a", " ", "b">>

\* A run on a well-formed, non-empty table, with every resource in place and
\* every episode's text passing the stopword check.
GoodRun ==
    /\ "avatar" \in globals
    /\ avatar.rows # <<>>
    /\ \A k \in 1..Len(avatar.rows) : HasKey(avatar.rows[k])
    /\ faultExc \notin {"URLError", "ParserError", "KeyError", "PermissionError",
                        "OSError", "LookupError"}
    /\ Normalized => Len(filtered_text) = Len(new_df.rows)

\* C7: every such run ends with the final table, with its eleven columns, in
\* memory.
C7_EndsWithFinalTable ==
    (GoodRun /\ Terminated) =>
        /\ pc = "done"
        /\ sentiment_data.columns = FinalColumns

\* What is in memory when the run has ended in a fault at a stage: nothing of
\* a later stage, and no final table.
FaultShape ==
    /\ faultExc # "none"
    /\ sentiment_data.columns # FinalColumns
    /\ faultStage \in {"load", "aggregate", "normalize", "score"}
    /\ faultStage = "load" =>
          /\ globals = Imports
          /\ avatar = NoTable /\ new_df = NoTable
          /\ csvFile \in PriorFiles
    /\ faultStage \in {"load", "aggregate"} =>
          /\ "nlp" \notin globals
          /\ filtered_text = <<>> /\ filter_text_df = NoTable
    /\ faultStage \in {"load", "aggregate", "normalize"} =>
          /\ "sentiment" \notin globals
          /\ sentiment_data = NoTable
    /\ faultExc = "AttributeError" <=>
          (faultStage = "score" /\ filter_text_df = NoTable /\ "sentiment" \in globals)

\* C8: a failure ends the run as an uncaught fault at its stage: once an
\* exception is raised the run is over, nothing of a later stage has run, no
\* final table exists, and no step follows (no retry, no recovery); an empty
\* aggregated table never gets past line 59.
C8_FaultEndsRun ==
    /\ [](faultExc # "none" => pc = "fault")
    /\ [](pc = "fault" => FaultShape)
    /\ []((Written /\ new_df.rows = <<>>) =>
             pc \in {"spacy_load", "normalize", "vader", "demo", "fault"})
    /\ [][pc = "fault" => UNCHANGED vars]_vars

C8_Witness ==
    /\ pc = "fault"
    /\ faultExc = "AttributeError"
    /\ avatar.rows # <<>>
    /\ new_df.rows = <<>>
    /\ csvFile = CsvOf(new_df)

\* C9, as claimed: whatever happens in the run, when it has ended the file
\* holds the run's aggregated table.
C9_FileHoldsAggregationAtEnd ==
    Terminated => csvFile = CsvOf(Aggregate(avatar))

\* C9, amended: once loading and aggregation are through, the file holds the
\* run's aggregated table, whatever it held before, and no later step changes
\* it; up to then the file is what it was before the run.
C9_FileHoldsAggregationOnceWritten ==
    /\ [](Written => csvFile = CsvOf(Aggregate(avatar)))
    /\ [](~Written => csvFile \in PriorFiles)
    /\ [][pc # "aggregate" => csvFile' = csvFile]_vars

C9_Witness ==
    /\ pc = "fault"
    /\ faultExc = "NameError"
    /\ Len(csvFile.lines) = 2
    /\ csvFile # OldFile
    /\ csvFile = CsvOf(new_df)

\* The texts of the first n rows that carry the key, one after the other.
RECURSIVE ConcatOfKey(_, _, _)
ConcatOfKey(rows, key, n) ==
    IF n = 0 THEN <<>>
    ELSE ConcatOfKey(rows, key, n - 1)
             \o (IF Key(rows[n]) = key THEN rows[n]["character_words"] ELSE <<>>)

\* C10: the text of every group is the texts of exactly the input rows with
\* the group's key, joined with nothing between them, in source row order.
C10_GroupTextIsConcatenation ==
    "new_df" \in globals =>
        \A g \in 1..Len(new_df.rows) :
            /\ \E k \in 1..Len(avatar.rows) : Key(avatar.rows[k]) = Key(new_df.rows[g])
            /\ new_df.rows[g]["character_words"]
                   = ConcatOfKey(avatar.rows, Key(new_df.rows[g]), Len(avatar.rows))

C10_Witness ==
    /\ "new_df" \in globals
    /\ Len(avatar.rows) = 3
    /\ Key(avatar.rows[1]) = Key(avatar.rows[3])
    /\ Key(avatar.rows[2]) # Key(avatar.rows[1])
    /\ \E g \in 1..Len(new_df.rows) :
          new_df.rows[g]["character_words"] = <<"b", "A", ".">>

====
